---- MODULE Spec2Model ----
(***************************************************************************)
(* Model of examples/sentiment-analysis.py: the keyword sentiment scorer   *)
(* analyze_sentiment and the stdin -> stdout enrichment pass of main.      *)
(*                                                                         *)
(* Strings are sequences of one-character strings, so that lower() and    *)
(* the \b\w+\b tokenisation are computed character by character.  Scores   *)
(* are kept in hundredths (1.0 is 100): round(score, 2) always returns a   *)
(* multiple of 0.01.  JSON values are tagged records.                      *)
(***************************************************************************)
EXTENDS Integers, Sequences, FiniteSets, TLC

VARIABLES
    pc,                 \* position of main: "start", "loop", "exited"
    stdin,              \* what json.loads(sys.stdin.read()) yields, or Malformed
    export_data,        \* main: export_data
    bookmarks,          \* main: the items the for loop iterates over
    idx,                \* main: number of loop iterations completed
    enriched_bookmarks, \* main: enriched_bookmarks
    sentiment_counts,   \* main: sentiment_counts
    stdout,             \* documents printed to standard output
    stderr,             \* messages printed to the error stream
    exit_code,          \* process exit status, -1 while running
    text,               \* scorer harness: the text handed to analyze_sentiment
    words,              \* scorer harness: the tokens the text was built from
    result              \* scorer harness: what analyze_sentiment returned

vars == <<pc, stdin, export_data, bookmarks, idx, enriched_bookmarks,
          sentiment_counts, stdout, stderr, exit_code, text, words, result>>

mainVars == <<pc, stdin, export_data, bookmarks, idx, enriched_bookmarks,
              sentiment_counts, stdout, stderr, exit_code>>

scorerVars == <<text, words, result>>

----------------------------------------------------------------------------
(* Bounds of the model *)

MaxBookmarks == 2
MaxCount == 60
MaxWords == 2

----------------------------------------------------------------------------
(* JSON values as json.loads builds them *)

Null == [t |-> "null"]
Bool(b) == [t |-> "bool", b |-> b]
Num(k) == [t |-> "num", num |-> k]
Str(cs) == [t |-> "str", chars |-> cs]
List(s) == [t |-> "list", items |-> s]
Dict(f) == [t |-> "dict", map |-> f]

EmptyMap == [k \in {} |-> Null]

\* {**base, key: value}
DictSet(base, key, value) ==
    [k \in (DOMAIN base) \cup {key} |-> IF k = key THEN value ELSE base[k]]

\* a test that takes only the empty string for an empty text
FalsyOnlyEmptyStr(v) == v.t = "str" /\ v.chars = <<>>

\* Python truthiness: `not v` is true for None, False, 0, '', [] and {}
Falsy(v) ==
    CASE v.t = "null" -> TRUE
      [] v.t = "bool" -> ~v.b
      [] v.t = "num"  -> v.num = 0
      [] v.t = "float" -> v.hundredths = 0
      [] v.t = "str"  -> v.chars = <<>>
      [] v.t = "list" -> v.items = <<>>
      [] v.t = "dict" -> DOMAIN v.map = {}

----------------------------------------------------------------------------
(* Characters *)

LowerLetters ==
    {"a","b","c","d","e","f","g","h","i","j","k","l","m","n","o","p","q","r",
     "s","t","u","v","w","x","y","z"}

ToLower ==
    "A" :> "a" @@ "B" :> "b" @@ "C" :> "c" @@ "D" :> "d" @@ "E" :> "e" @@
    "F" :> "f" @@ "G" :> "g" @@ "H" :> "h" @@ "I" :> "i" @@ "J" :> "j" @@
    "K" :> "k" @@ "L" :> "l" @@ "M" :> "m" @@ "N" :> "n" @@ "O" :> "o" @@
    "P" :> "p" @@ "Q" :> "q" @@ "R" :> "r" @@ "S" :> "s" @@ "T" :> "t" @@
    "U" :> "u" @@ "V" :> "v" @@ "W" :> "w" @@ "X" :> "x" @@ "Y" :> "y" @@
    "Z" :> "z"

UpperLetters == DOMAIN ToLower

Digits == {"0","1","2","3","4","5","6","7","8","9"}

\* the regular expression class \w
IsWordChar(c) == c \in LowerLetters \cup UpperLetters \cup Digits \cup {"_"}

\* a normalisation that keeps the case
lowerKeepCase(cs) == cs

\* str.lower()
lower(cs) == [i \in 1..Len(cs) |-> IF cs[i] \in UpperLetters THEN ToLower[cs[i]] ELSE cs[i]]

\* re.findall(r'\b\w+\b', cs): the maximal runs of word characters, in order.
\* A run starts at a word character that has no word character before it ...
RunStartsAt(cs, i) == IsWordChar(cs[i]) /\ (i = 1 \/ ~IsWordChar(cs[i - 1]))

\* ... and \w+ extends it as far as word characters follow.
RECURSIVE RunEnd(_, _)
RunEnd(cs, i) == IF i < Len(cs) /\ IsWordChar(cs[i + 1]) THEN RunEnd(cs, i + 1) ELSE i

\* the runs that start in lo..hi, left to right (the range is halved to keep
\* the evaluation shallow on long texts)
RECURSIVE RunsIn(_, _, _)
RunsIn(cs, lo, hi) ==
    IF lo > hi THEN <<>>
    ELSE IF lo = hi
         THEN IF RunStartsAt(cs, lo) THEN <<SubSeq(cs, lo, RunEnd(cs, lo))>> ELSE <<>>
         ELSE LET mid == (lo + hi) \div 2
              IN  RunsIn(cs, lo, mid) \o RunsIn(cs, mid + 1, hi)

findall(cs) == RunsIn(cs, 1, Len(cs))

----------------------------------------------------------------------------
(* The lexicons *)

POSITIVE_WORDS ==
    { <<"g","o","o","d">>,
      <<"g","r","e","a","t">>,
      <<"e","x","c","e","l","l","e","n","t">>,
      <<"a","m","a","z","i","n","g">>,
      <<"a","w","e","s","o","m","e">>,
      <<"f","a","n","t","a","s","t","i","c">>,
      <<"w","o","n","d","e","r","f","u","l">>,
      <<"l","o","v","e">>,
      <<"b","e","s","t">>,
      <<"p","e","r","f","e","c","t">>,
      <<"b","r","i","l","l","i","a","n","t">>,
      <<"o","u","t","s","t","a","n","d","i","n","g">>,
      <<"s","u","p","e","r","b">>,
      <<"i","n","c","r","e","d","i","b","l","e">>,
      <<"h","e","l","p","f","u","l">>,
      <<"u","s","e","f","u","l">>,
      <<"v","a","l","u","a","b","l","e">>,
      <<"i","m","p","o","r","t","a","n","t">>,
      <<"i","n","t","e","r","e","s","t","i","n","g">>,
      <<"i","n","s","i","g","h","t","f","u","l">> }

NEGATIVE_WORDS ==
    { <<"b","a","d">>,
      <<"t","e","r","r","i","b","l","e">>,
      <<"a","w","f","u","l">>,
      <<"h","o","r","r","i","b","l","e">>,
      <<"w","o","r","s","t">>,
      <<"p","o","o","r">>,
      <<"d","i","s","a","p","p","o","i","n","t","i","n","g">>,
      <<"h","a","t","e">>,
      <<"u","s","e","l","e","s","s">>,
      <<"b","r","o","k","e","n">>,
      <<"f","a","i","l","e","d">>,
      <<"e","r","r","o","r">>,
      <<"p","r","o","b","l","e","m">>,
      <<"i","s","s","u","e">>,
      <<"b","u","g">>,
      <<"d","i","f","f","i","c","u","l","t">>,
      <<"c","o","n","f","u","s","i","n","g">>,
      <<"c","o","m","p","l","i","c","a","t","e","d">>,
      <<"f","r","u","s","t","r","a","t","i","n","g">>,
      <<"a","n","n","o","y","i","n","g">> }

\* a count of the distinct lexicon words instead of their occurrences
CountInUnique(ws, lexicon) == Cardinality({ws[i] : i \in 1..Len(ws)} \cap lexicon)

\* sum(1 for word in ws if word in lexicon)
CountIn(ws, lexicon) == Cardinality({i \in 1..Len(ws) : ws[i] \in lexicon})

----------------------------------------------------------------------------
(* Floating point: score = d / t in IEEE double, then round(score, 2) *)

RECURSIVE PowMod2(_, _)
\* 2^e mod t
PowMod2(e, t) == IF e = 0 THEN 1 % t ELSE (2 * PowMod2(e - 1, t)) % t

RECURSIVE BinaryExponent(_, _, _)
\* the least m >= 0 with a * 2^m >= t, for 0 < a <= t (a/t lies in [2^-m, 2^(1-m)))
BinaryExponent(a, t, m) == IF a >= t THEN m ELSE BinaryExponent(2 * a, t, m + 1)

\* Sign of double(a/t) - a/t for 0 < a <= t: the division is correctly rounded
\* to a 53-bit significand, so it is decided by the remainder of
\* a * 2^(52+m) modulo t.  (2 * rem = t cannot happen for t < 2^53.)
DoubleErrSign(a, t) ==
    LET m   == BinaryExponent(a, t, 0)
        rem == ((a % t) * PowMod2(52 + m, t)) % t
    IN  IF rem = 0 THEN 0 ELSE IF 2 * rem < t THEN -1 ELSE 1

\* round(d / t, 2) in hundredths.  Python rounds the exact binary value of the
\* double to the nearest hundredth, half to even; the double differs from d/t
\* by far less than its distance to a rounding boundary unless d/t is itself a
\* boundary, where the sign of the representation error decides.
round2(d, t) ==
    LET a == IF d < 0 THEN -d ELSE d
        q == (100 * a) \div t
        r == (100 * a) % t
        h == IF 2 * r < t THEN q
             ELSE IF 2 * r > t THEN q + 1
             ELSE LET s == DoubleErrSign(a, t)
                  IN  IF s = 0 THEN (IF q % 2 = 0 THEN q ELSE q + 1)
                      ELSE IF s < 0 THEN q ELSE q + 1
    IN  IF d < 0 THEN -h ELSE h

\* d / t > 0.2 on doubles: both sides are correctly rounded, and d/t is never
\* within an ulp of 1/5 without being equal to it, so the rationals decide.
GtFifth(d, t) == 5 * d > t

\* d / t < -0.2 on doubles
LtMinusFifth(d, t) == 5 * d < -t

----------------------------------------------------------------------------
(* analyze_sentiment *)

Returned(label, score) == [exc |-> "none", sentiment |-> label, score |-> score]
Raised(kind) == [exc |-> kind, sentiment |-> "none", score |-> 0]

\* lines 47-61: the score and label from the two counts
ScoreCounts(positive_count, negative_count) ==
    LET total_sentiment_words == positive_count + negative_count
        d == positive_count - negative_count
    IN  IF total_sentiment_words = 0
        THEN Returned("neutral", 0)
        ELSE Returned(IF GtFifth(d, total_sentiment_words) THEN "positive"
                      ELSE IF LtMinusFifth(d, total_sentiment_words) THEN "negative"
                      ELSE "neutral",
                      round2(d, total_sentiment_words))

analyze_sentiment(txt) ==
    IF Falsy(txt) THEN Returned("neutral", 0)
    ELSE IF txt.t # "str" THEN Raised("AttributeError")
    ELSE LET text_lower == lower(txt.chars)
             ws == findall(text_lower)
         IN  ScoreCounts(CountIn(ws, POSITIVE_WORDS), CountIn(ws, NEGATIVE_WORDS))

----------------------------------------------------------------------------
(* main *)

Labels == {"positive", "negative", "neutral"}

LabelChars ==
    "positive" :> <<"p","o","s","i","t","i","v","e">> @@
    "negative" :> <<"n","e","g","a","t","i","v","e">> @@
    "neutral"  :> <<"n","e","u","t","r","a","l">>

\* a Python float with two decimals, in hundredths
Float(h) == [t |-> "float", hundredths |-> h]

\* what json.loads rejects
Malformed == [t |-> "malformed"]

\* d.get(key, default) on a dict
GetOr(map, key, default) == IF key \in DOMAIN map THEN map[key] ELSE default

\* line 75: what `for bookmark in v` can iterate over
Iterable(v) == v.t \in {"list", "str", "dict"}

\* line 75: the items the loop visits: the elements of a list, the characters
\* of a string, the keys of a dict (each key a string; only its being a
\* string matters to the loop body)
IterItems(v) ==
    CASE v.t = "list" -> v.items
      [] v.t = "str"  -> [i \in 1..Len(v.chars) |-> Str(<<v.chars[i]>>)]
      [] v.t = "dict" -> LET RECURSIVE Keys(_)
                             Keys(S) == IF S = {} THEN <<>>
                                        ELSE LET k == CHOOSE x \in S : TRUE
                                             IN  <<Str(<<k>>)>> \o Keys(S \ {k})
                         IN  Keys(DOMAIN v.map)

\* line 76: bookmark.get('text', '')
BookmarkText(bookmark) == GetOr(bookmark.map, "text", Str(<<>>))

\* a tally that assigns instead of incrementing
TallyAssign(counts, sentiment) == [counts EXCEPT ![sentiment] = 1]

\* line 78: sentiment_counts[sentiment] += 1
Tally(counts, sentiment) == [counts EXCEPT ![sentiment] = @ + 1]

\* a sub-record that replaces the existing one instead of extending it
MergeAnalysisReplace(existing, sentiment, score) ==
    Dict(DictSet(DictSet(EmptyMap, "sentiment", Str(LabelChars[sentiment])),
                 "sentimentScore", Float(score)))

\* lines 82-86: the customAnalysis sub-record of the enriched bookmark
MergeAnalysis(existing, sentiment, score) ==
    Dict(DictSet(DictSet(existing.map, "sentiment", Str(LabelChars[sentiment])),
                 "sentimentScore", Float(score)))

\* lines 80-87: the enriched bookmark
Enrich(bookmark, sentiment, score) ==
    Dict(DictSet(bookmark.map, "customAnalysis",
                 MergeAnalysis(GetOr(bookmark.map, "customAnalysis", Dict(EmptyMap)),
                               sentiment, score)))

\* an insertion at the front of the list
AppendEnrichedFront(list, enriched_bookmark) == <<enriched_bookmark>> \o list

\* line 88: enriched_bookmarks.append(enriched_bookmark)
AppendEnriched(list, enriched_bookmark) == Append(list, enriched_bookmark)

\* lines 96-100: the tally object
TallyObject(counts) == Dict([l \in Labels |-> Num(counts[l])])

\* an output whose metadata holds the tally only
BuildOutputFreshMetadata(data, enriched, counts) ==
    Dict(DictSet(DictSet(data.map, "bookmarks", List(enriched)),
                 "metadata",
                 Dict(DictSet(EmptyMap, "sentimentAnalysis", TallyObject(counts)))))

\* lines 91-102: the output document
BuildOutput(data, enriched, counts) ==
    Dict(DictSet(DictSet(data.map, "bookmarks", List(enriched)),
                 "metadata",
                 Dict(DictSet(GetOr(data.map, "metadata", Dict(EmptyMap)).map,
                              "sentimentAnalysis", TallyObject(counts)))))

\* a handler that reports the error but lets the process end normally
HandleErrorNoExit(error) ==
    /\ stderr' = Append(stderr, error)
    /\ exit_code' = 0
    /\ pc' = "exited"
    /\ UNCHANGED stdout

\* lines 106-108: the exception handler
HandleError(error) ==
    /\ stderr' = Append(stderr, error)
    /\ exit_code' = 1
    /\ pc' = "exited"
    /\ UNCHANGED stdout

\* lines 66-73
ReadInput ==
    /\ pc = "start"
    /\ UNCHANGED <<stdin, idx, scorerVars>>
    /\ IF stdin = Malformed
       THEN /\ HandleError("JSONDecodeError")
            /\ UNCHANGED <<export_data, bookmarks, enriched_bookmarks, sentiment_counts>>
       ELSE /\ export_data' = stdin
            /\ IF stdin.t # "dict"
               THEN /\ HandleError("AttributeError")
                    /\ UNCHANGED <<bookmarks, enriched_bookmarks, sentiment_counts>>
               ELSE /\ bookmarks' = GetOr(stdin.map, "bookmarks", List(<<>>))
                    /\ enriched_bookmarks' = <<>>
                    /\ sentiment_counts' = [l \in Labels |-> 0]
                    /\ pc' = "loop"
                    /\ UNCHANGED <<stdout, stderr, exit_code>>

\* line 75 when bookmarks cannot be iterated
IterateFails ==
    /\ pc = "loop"
    /\ ~Iterable(bookmarks)
    /\ HandleError("TypeError")
    /\ UNCHANGED <<stdin, export_data, bookmarks, idx, enriched_bookmarks,
                   sentiment_counts, scorerVars>>

\* lines 75-88: one iteration of the loop
ProcessBookmark ==
    /\ pc = "loop"
    /\ Iterable(bookmarks)
    /\ idx < Len(IterItems(bookmarks))
    /\ UNCHANGED <<stdin, export_data, bookmarks, scorerVars>>
    /\ LET bookmark == IterItems(bookmarks)[idx + 1] IN
       IF bookmark.t # "dict"
       THEN /\ HandleError("AttributeError")
            /\ UNCHANGED <<idx, enriched_bookmarks, sentiment_counts>>
       ELSE LET r == analyze_sentiment(BookmarkText(bookmark)) IN
            IF r.exc # "none"
            THEN /\ HandleError(r.exc)
                 /\ UNCHANGED <<idx, enriched_bookmarks, sentiment_counts>>
            ELSE /\ sentiment_counts' = Tally(sentiment_counts, r.sentiment)
                 /\ IF GetOr(bookmark.map, "customAnalysis", Dict(EmptyMap)).t # "dict"
                    THEN /\ HandleError("TypeError")
                         /\ UNCHANGED <<idx, enriched_bookmarks>>
                    ELSE /\ enriched_bookmarks' =
                               AppendEnriched(enriched_bookmarks,
                                              Enrich(bookmark, r.sentiment, r.score))
                         /\ idx' = idx + 1
                         /\ UNCHANGED <<pc, stdout, stderr, exit_code>>

\* lines 91-104, after the loop has visited every item
WriteOutput ==
    /\ pc = "loop"
    /\ Iterable(bookmarks)
    /\ idx = Len(IterItems(bookmarks))
    /\ UNCHANGED <<stdin, export_data, bookmarks, idx, enriched_bookmarks,
                   sentiment_counts, scorerVars>>
    /\ IF GetOr(export_data.map, "metadata", Dict(EmptyMap)).t # "dict"
       THEN HandleError("TypeError")
       ELSE /\ stdout' = Append(stdout, BuildOutput(export_data, enriched_bookmarks,
                                                    sentiment_counts))
            /\ exit_code' = 0
            /\ pc' = "exited"
            /\ UNCHANGED stderr

(* Inputs *)

SampleTexts ==
    { Str(<<"G","o","o","d"," ","t","o","o","l","!">>),
      Str(<<"b","a","d"," ","b","u","g">>),
      Str(<<"g","o","o","d"," ","b","u","t"," ","b","a","d">>) }

TextFields == {Null, Str(<<>>), Num(5)} \cup SampleTexts

AnalysisFields ==
    { Null,
      Dict("note" :> Str(<<"x">>) @@ "sentiment" :> Str(<<"o","l","d">>)) }

BaseBookmark == "url" :> Str(<<"u">>)

WithField(maps, key, values) ==
    maps \cup { DictSet(m, key, v) : m \in maps, v \in values }

BookmarkEntries ==
    { Dict(m) : m \in WithField(WithField({BaseBookmark}, "text", TextFields),
                                "customAnalysis", AnalysisFields) }
    \cup { Null, Str(<<"x">>) }

BookmarksFields ==
    { Null, Num(3), Bool(FALSE), Str(<<>>), Str(<<"a","b">>), Dict(EmptyMap),
      Dict("k" :> Null) }
    \cup { List(s) : s \in UNION { [1..n -> BookmarkEntries] : n \in 0..MaxBookmarks } }

MetadataFields ==
    { Num(5), Dict("source" :> Str(<<"x">>) @@ "sentimentAnalysis" :> Num(7)) }

BaseDocument == "version" :> Num(2)

Documents ==
    { Dict(m) : m \in WithField(WithField({BaseDocument}, "bookmarks", BookmarksFields),
                                "metadata", MetadataFields) }

Inputs == Documents \cup { Malformed, List(<<>>) }

Init ==
    /\ pc = "start"
    /\ stdin \in Inputs
    /\ export_data = Null
    /\ bookmarks = Null
    /\ idx = 0
    /\ enriched_bookmarks = <<>>
    /\ sentiment_counts = [l \in Labels |-> 0]
    /\ stdout = <<>>
    /\ stderr = <<>>
    /\ exit_code = -1
    /\ text = Null
    /\ words = <<>>
    /\ result = Returned("neutral", 0)

Next == ReadInput \/ IterateFails \/ ProcessBookmark \/ WriteOutput

Spec == Init /\ [][Next]_vars

----------------------------------------------------------------------------
(* Scorer harness: texts are built token by token and scored after each     *)
(* token.  words remembers what was appended, with the polarity the token   *)
(* was chosen for, independently of what the scorer finds in the text.      *)

Good    == <<"g","o","o","d">>
Great   == <<"g","r","e","a","t">>
Bad     == <<"b","a","d">>
Bug     == <<"b","u","g">>
Goods   == <<"g","o","o","d","s">>
FortyTwo == <<"4","2">>

Token(cs, polarity) == [chars |-> cs, polarity |-> polarity]

Added(ws, polarity) == Cardinality({i \in 1..Len(ws) : ws[i].polarity = polarity})

MainIdle ==
    /\ pc = "idle"
    /\ stdin = Null
    /\ export_data = Null
    /\ bookmarks = Null
    /\ idx = 0
    /\ enriched_bookmarks = <<>>
    /\ sentiment_counts = [l \in Labels |-> 0]
    /\ stdout = <<>>
    /\ stderr = <<>>
    /\ exit_code = -1

\* the call analyze_sentiment(text) on the text extended by one token
Feed(tok, shown, sep) ==
    /\ text' = Str(text.chars \o shown \o sep)
    /\ words' = Append(words, tok)
    /\ result' = analyze_sentiment(text')
    /\ UNCHANGED mainVars

(* Counts: p positive tokens followed by n negative tokens *)

InitScore ==
    /\ MainIdle
    /\ text = Str(<<>>)
    /\ words = <<>>
    /\ result = analyze_sentiment(text)

AddPositive ==
    /\ Added(words, "neg") = 0
    /\ Added(words, "pos") < MaxCount
    /\ LET cs == IF Len(words) % 2 = 0 THEN Good ELSE Great
       IN  Feed(Token(cs, "pos"), cs, <<" ">>)

AddNegative ==
    /\ Added(words, "neg") < MaxCount
    /\ LET cs == IF Len(words) % 2 = 0 THEN Bad ELSE Bug
       IN  Feed(Token(cs, "neg"), cs, <<",", " ">>)

NextScore == AddPositive \/ AddNegative

SpecScore == InitScore /\ [][NextScore]_vars

(* Spelling: a few tokens in varying case with varying separators *)

Vocabulary ==
    { Token(Good, "pos"), Token(Bad, "neg"), Token(Goods, "none"),
      Token(FortyTwo, "none") }

ToUpper(c) == IF c \in LowerLetters THEN CHOOSE u \in UpperLetters : ToLower[u] = c ELSE c

CaseStyles == {"lower", "upper", "capital"}

Styled(cs, style) ==
    [i \in 1..Len(cs) |->
        IF style = "upper" \/ (style = "capital" /\ i = 1) THEN ToUpper(cs[i]) ELSE cs[i]]

Separators == { <<" ">>, <<",", " ">>, <<"!">> }

InitText ==
    /\ MainIdle
    /\ \E b \in { Dict(BaseBookmark),
                   Dict(DictSet(BaseBookmark, "text", Null)),
                   Dict(DictSet(BaseBookmark, "text", Str(<<"?", "!", " ">>))) } :
          text = BookmarkText(b)
    /\ words = <<>>
    /\ result = analyze_sentiment(text)

AppendWord ==
    /\ text.t = "str"
    /\ Len(words) < MaxWords
    /\ \E tok \in Vocabulary, style \in CaseStyles, sep \in Separators :
          Feed(tok, Styled(tok.chars, style), sep)

NextText == AppendWord

SpecText == InitText /\ [][NextText]_vars

\* the tokens of ws joined by single spaces
RECURSIVE JoinSpace(_)
JoinSpace(ws) ==
    IF ws = <<>> THEN <<>>
    ELSE IF Len(ws) = 1 THEN ws[1].chars
    ELSE ws[1].chars \o <<" ">> \o JoinSpace(Tail(ws))

----------------------------------------------------------------------------
(* Properties of main *)

Succeeded == pc = "exited" /\ exit_code = 0

\* the bookmarks of the input document, none when the field is missing
InBookmarks ==
    IF "bookmarks" \in DOMAIN stdin.map THEN IterItems(stdin.map["bookmarks"]) ELSE <<>>

Output == stdout[1].map

OutBookmarks == Output["bookmarks"].items

Computed(bookmark) == analyze_sentiment(BookmarkText(bookmark))

SumCounts(counts) == counts["positive"] + counts["negative"] + counts["neutral"]

OutAnalysis(i) == OutBookmarks[i].map["customAnalysis"].map

AnalysisKeys == {"sentiment", "sentimentScore"}

\* C3: the emitted tally sums to the number of input bookmarks and each count
\* is the number of bookmarks with that computed label; during the pass the
\* running counts sum to the number of bookmarks processed so far.
C3_TallyCorrect ==
    /\ pc = "loop" => SumCounts(sentiment_counts) = idx
    /\ Succeeded =>
          LET tally == Output["metadata"].map["sentimentAnalysis"].map IN
          /\ DOMAIN tally = Labels
          /\ tally["positive"].num + tally["negative"].num + tally["neutral"].num
                = Len(InBookmarks)
          /\ \A l \in Labels :
                tally[l].num = Cardinality({i \in 1..Len(InBookmarks) :
                                               Computed(InBookmarks[i]).sentiment = l})

C3_Witness ==
    /\ Succeeded
    /\ Len(InBookmarks) = 2
    /\ Output["metadata"].map["sentimentAnalysis"]
          = Dict("positive" :> Num(0) @@ "negative" :> Num(1) @@ "neutral" :> Num(1))

\* C4: the output has as many bookmarks as the input, the i-th output
\* bookmark is the enrichment of the i-th input bookmark, and a document
\* without a bookmarks field gets an empty bookmarks sequence.
C4_OrderPreserved ==
    Succeeded =>
        /\ Output["bookmarks"].t = "list"
        /\ Len(OutBookmarks) = Len(InBookmarks)
        /\ \A i \in 1..Len(InBookmarks) :
              /\ \A k \in DOMAIN InBookmarks[i].map \ {"customAnalysis"} :
                    /\ k \in DOMAIN OutBookmarks[i].map
                    /\ OutBookmarks[i].map[k] = InBookmarks[i].map[k]
              /\ OutAnalysis(i)["sentiment"]
                    = Str(LabelChars[Computed(InBookmarks[i]).sentiment])
        /\ ("bookmarks" \notin DOMAIN stdin.map => OutBookmarks = <<>>)

C4_Witness ==
    /\ Succeeded
    /\ Len(OutBookmarks) = 2
    /\ InBookmarks[1] # InBookmarks[2]
    /\ OutAnalysis(1)["sentiment"] = Str(LabelChars["positive"])
    /\ OutAnalysis(2)["sentiment"] = Str(LabelChars["negative"])

\* C5: customAnalysis of every output bookmark holds the computed sentiment
\* and sentimentScore; the other keys of an existing customAnalysis are kept
\* with their values, and without one it holds exactly the two keys.
C5_AnalysisMerged ==
    Succeeded =>
        \A i \in 1..Len(InBookmarks) :
            LET in == InBookmarks[i].map
                r  == Computed(InBookmarks[i])
            IN  /\ i <= Len(OutBookmarks)
                /\ OutAnalysis(i)["sentiment"] = Str(LabelChars[r.sentiment])
                /\ OutAnalysis(i)["sentimentScore"] = Float(r.score)
                /\ IF "customAnalysis" \in DOMAIN in
                   THEN /\ DOMAIN OutAnalysis(i)
                              = DOMAIN in["customAnalysis"].map \cup AnalysisKeys
                        /\ \A k \in DOMAIN in["customAnalysis"].map \ AnalysisKeys :
                              OutAnalysis(i)[k] = in["customAnalysis"].map[k]
                   ELSE DOMAIN OutAnalysis(i) = AnalysisKeys

C5_Witness ==
    /\ Succeeded
    /\ Len(InBookmarks) = 2
    /\ "customAnalysis" \in DOMAIN InBookmarks[1].map
    /\ "customAnalysis" \notin DOMAIN InBookmarks[2].map
    /\ OutAnalysis(1)["note"] = Str(<<"x">>)
    /\ OutAnalysis(1)["sentiment"] = Str(LabelChars["negative"])
    /\ OutAnalysis(1)["sentimentScore"] = Float(-100)

\* C6: bookmark fields other than customAnalysis, top-level fields other
\* than bookmarks and metadata, and keys of an existing metadata other than
\* sentimentAnalysis have in the output the value they had in the input.
C6_FieldsPreserved ==
    Succeeded =>
        /\ \A i \in 1..Len(InBookmarks) :
              /\ i <= Len(OutBookmarks)
              /\ DOMAIN OutBookmarks[i].map
                    = DOMAIN InBookmarks[i].map \cup {"customAnalysis"}
              /\ \A k \in DOMAIN InBookmarks[i].map \ {"customAnalysis"} :
                    OutBookmarks[i].map[k] = InBookmarks[i].map[k]
        /\ DOMAIN Output = DOMAIN stdin.map \cup {"bookmarks", "metadata"}
        /\ \A k \in DOMAIN stdin.map \ {"bookmarks", "metadata"} :
              Output[k] = stdin.map[k]
        /\ "metadata" \in DOMAIN stdin.map =>
              /\ DOMAIN Output["metadata"].map
                    = DOMAIN stdin.map["metadata"].map \cup {"sentimentAnalysis"}
              /\ \A k \in DOMAIN stdin.map["metadata"].map \ {"sentimentAnalysis"} :
                    Output["metadata"].map[k] = stdin.map["metadata"].map[k]

C6_Witness ==
    /\ Succeeded
    /\ Len(InBookmarks) = 1
    /\ "text" \in DOMAIN InBookmarks[1].map
    /\ OutBookmarks[1].map["url"] = Str(<<"u">>)
    /\ Output["version"] = Num(2)
    /\ "metadata" \in DOMAIN stdin.map
    /\ Output["metadata"].map["source"] = Str(<<"x">>)
    /\ Output["metadata"].map["sentimentAnalysis"] # Num(7)

\* C7: standard output is written at most once, only after every bookmark is
\* processed and the tally is complete; a run in which a step fails has
\* written nothing to standard output, has written a message to the error
\* stream and exits with a non-zero status.
C7_OutputOnlyOnSuccess ==
    /\ Len(stdout) <= 1
    /\ stdout # <<>> =>
          /\ Succeeded
          /\ Iterable(bookmarks)
          /\ idx = Len(IterItems(bookmarks))
          /\ Len(enriched_bookmarks) = idx
          /\ SumCounts(sentiment_counts) = idx
    /\ pc # "exited" => stdout = <<>> /\ stderr = <<>> /\ exit_code = -1
    /\ pc = "exited" =>
          \/ exit_code = 0 /\ Len(stdout) = 1 /\ stderr = <<>>
          \/ exit_code > 0 /\ stdout = <<>> /\ Len(stderr) = 1
    /\ (pc = "exited" /\ stdin = Malformed) => exit_code > 0

C7_Witness ==
    /\ pc = "exited"
    /\ idx = 1
    /\ Len(IterItems(bookmarks)) = 2
    /\ exit_code = 1
    /\ stdout = <<>>
    /\ stderr = <<"AttributeError">>

\* the document parses but its bookmarks field is not a sequence of records
StructurallyInvalid ==
    /\ stdin # Malformed
    /\ stdin.t = "dict"
    /\ "bookmarks" \in DOMAIN stdin.map
    /\ \/ stdin.map["bookmarks"].t # "list"
       \/ \E i \in 1..Len(stdin.map["bookmarks"].items) :
             stdin.map["bookmarks"].items[i].t # "dict"

\* C8: a document whose bookmarks field is present and not a sequence, or
\* that has a bookmark entry that is not a record, ends the run in the error
\* state: non-zero exit and no output document.
C8_InvalidStructureAborts ==
    (pc = "exited" /\ StructurallyInvalid) => (exit_code > 0 /\ stdout = <<>>)

----------------------------------------------------------------------------
(* Properties of the scorer *)

P == Added(words, "pos")
N == Added(words, "neg")

\* C1: the returned label is determined by the returned, rounded score:
\* positive exactly when score > 0.20, negative exactly when score < -0.20,
\* neutral otherwise.
C1_LabelFromReturnedScore ==
    result.exc = "none" =>
        /\ (result.sentiment = "positive") <=> (result.score > 20)
        /\ (result.sentiment = "negative") <=> (result.score < -20)
        /\ (result.sentiment = "neutral") <=> (result.score >= -20 /\ result.score <= 20)

\* C2: a text without any lexicon token (empty, null, digits or punctuation
\* only, or only words outside the lexicons) is scored (neutral, 0.0) and no
\* exception is raised.
C2_NoHitsNeutralZero ==
    (P + N = 0) => result = Returned("neutral", 0)

C2_Witness ==
    /\ P + N = 0
    /\ Len(words) = 2
    /\ words[1].chars = Goods
    /\ words[2].chars = FortyTwo
    /\ result = Returned("neutral", 0)

\* C9: with at least one hit the returned score is (p - n) / (p + n) rounded
\* to two decimals, p and n counting every occurrence; so it lies in
\* [-1.0, 1.0], is 1.0 when n = 0, -1.0 when p = 0, and 0.0 when p = n.
C9_ScoreIsRoundedRatio ==
    (P + N > 0) =>
        /\ result.exc = "none"
        /\ 2 * (100 * (P - N) - result.score * (P + N)) <= P + N
        /\ 2 * (result.score * (P + N) - 100 * (P - N)) <= P + N
        /\ result.score >= -100 /\ result.score <= 100
        /\ (N = 0 => result.score = 100)
        /\ (P = 0 => result.score = -100)
        /\ (P = N => result.score = 0)

C9_Witness ==
    /\ P = 3 /\ N = 1
    /\ words[1].chars = words[3].chars
    /\ result.score = 50

\* C10: the result depends only on the lowercased word tokens: a text gets
\* the result of its tokens written in lower case and joined by single spaces.
C10_CaseAndPunctuationIgnored ==
    text.t = "str" => result = analyze_sentiment(Str(JoinSpace(words)))

C10_Witness ==
    /\ Len(words) = 2
    /\ words[1].chars = Good /\ words[2].chars = Good
    /\ text = Str(<<"G","O","O","D",","," ","g","o","o","d","!">>)
    /\ result = Returned("positive", 100)

====
